---- MODULE Spec2Model ----
(***************************************************************************)
(* Story Agent (api/main.py): the two JSON handlers /generate and /revise, *)
(* the Gemini client call_gemini, the output parser parse_gemini_output    *)
(* and the marker sanitizer strip_markers.                                 *)
(*                                                                         *)
(* A Python str is modelled as a sequence of one-character strings, so     *)
(* that replace, strip, lower, startswith, split and splitlines are        *)
(* computed character by character as CPython computes them.               *)
(***************************************************************************)
EXTENDS Naturals, Sequences, FiniteSets, TLC

VARIABLES
    pc,        \* request -> "idle" | "pending" | "handler" | "in_call" |
               \*            "returned" | "done"
    endpoint,  \* request -> "none" | "generate" | "revise"
    loop,      \* the request whose coroutine holds the event loop, or None
    calls,     \* request -> number of model.generate_content calls issued
    model_result, \* request -> what model.generate_content did
    response,  \* request -> the HTTP response returned
    op,        \* function harness: which function has been applied
    input,     \* function harness: the argument
    output     \* function harness: the result

vars == <<pc, endpoint, loop, calls, model_result, response, op, input, output>>

None == "None"

----------------------------------------------------------------------------
(* Bounds of the model *)

\* strip_markers inputs: at most this many fragments concatenated
MaxStripFrags == 3

\* body text Y of a well-formed model output: at most this many fragments
MaxBodyFrags == 3

\* str(e) of a failed model call: at most this many fragments
MaxErrFrags == 2

\* resp.text of a successful model call: at most this many fragments
MaxOutFrags == 3

----------------------------------------------------------------------------
(* String literals of the source, as character sequences *)

TWIST1 ==
    <<"[","T","W","I","S","T","1","]">>

TWIST2 ==
    <<"[","T","W","I","S","T","2","]">>

TWIST3 ==
    <<"[","T","W","I","S","T","3","]">>

TWIST4 ==
    <<"[","T","W","I","S","T","4","]">>

----------------------------------------------------------------------------
(* Python str operations *)

\* str.strip() removes these from both ends (the whitespace of the alphabet)
Whitespace == {" ", "\n", "\r", "\t"}

\* s[i:i+len(p)] == p  (i is 1-based)
MatchAt(s, i, p) ==
    /\ i + Len(p) - 1 <= Len(s)
    /\ \A k \in 1..Len(p) : s[i + k - 1] = p[k]

\* p in s
Contains(s, p) == \E i \in 1..(Len(s) + 1) : MatchAt(s, i, p)

\* s.startswith(p)
StartsWith(s, p) == MatchAt(s, 1, p)

RECURSIVE ReplaceFrom(_, _, _, _)
ReplaceFrom(s, i, old, new) ==
    IF i > Len(s) THEN <<>>
    ELSE IF MatchAt(s, i, old)
         THEN new \o ReplaceFrom(s, i + Len(old), old, new)
         ELSE <<s[i]>> \o ReplaceFrom(s, i + 1, old, new)

\* s.replace(old, new) for a non-empty old: one left-to-right pass over s,
\* each non-overlapping occurrence replaced; the result is not rescanned
Replace(s, old, new) == ReplaceFrom(s, 1, old, new)

\* s.strip()
Strip(s) ==
    LET keep == {i \in 1..Len(s) : s[i] \notin Whitespace}
    IN  IF keep = {} THEN <<>>
        ELSE LET lo == CHOOSE i \in keep : \A j \in keep : i <= j
                 hi == CHOOSE i \in keep : \A j \in keep : j <= i
             IN  SubSeq(s, lo, hi)

UpperCase ==
    <<"A","B","C","D","E","F","G","H","I","J","K","L","M","N","O","P","Q","R",
      "S","T","U","V","W","X","Y","Z">>

LowerCase ==
    <<"a","b","c","d","e","f","g","h","i","j","k","l","m","n","o","p","q","r",
      "s","t","u","v","w","x","y","z">>

LowerChar(c) ==
    IF \E i \in 1..26 : UpperCase[i] = c
    THEN LowerCase[CHOOSE i \in 1..26 : UpperCase[i] = c]
    ELSE c

\* s.lower()
Lower(s) == [i \in 1..Len(s) |-> LowerChar(s[i])]

\* the line boundaries of str.splitlines() (those of the alphabet); "\r\n"
\* counts as one boundary
LineBreaks == {"\n", "\r"}

RECURSIVE SplitLinesFrom(_, _, _)
SplitLinesFrom(s, i, cur) ==
    IF i > Len(s)
    THEN IF cur = <<>> THEN <<>> ELSE <<cur>>
    ELSE IF s[i] = "\r" /\ i < Len(s) /\ s[i + 1] = "\n"
         THEN <<cur>> \o SplitLinesFrom(s, i + 2, <<>>)
         ELSE IF s[i] \in LineBreaks
              THEN <<cur>> \o SplitLinesFrom(s, i + 1, <<>>)
              ELSE SplitLinesFrom(s, i + 1, Append(cur, s[i]))

\* s.splitlines(): the lines without their boundaries; a boundary at the
\* very end opens no further line
SplitLines(s) == SplitLinesFrom(s, 1, <<>>)

\* ln.split(":")[1], the maxsplit forgotten: what lies between the first
\* colon of ln and the second
BetweenFirstTwoColons(ln) ==
    LET colons == {i \in 1..Len(ln) : ln[i] = ":"}
        k == CHOOSE i \in colons : \A j \in colons : i <= j
        later == {i \in colons : i > k}
    IN  IF later = {} THEN SubSeq(ln, k + 1, Len(ln))
        ELSE SubSeq(ln, k + 1,
                    (CHOOSE i \in later : \A j \in later : i <= j) - 1)

\* ln.split(":", 1)[1]: what follows the first colon of ln
AfterFirstColon(ln) ==
    LET k == CHOOSE i \in 1..Len(ln) :
                 ln[i] = ":" /\ \A j \in 1..(i - 1) : ln[j] # ":"
    IN  SubSeq(ln, k + 1, Len(ln))

----------------------------------------------------------------------------
(* Output parser *)

TitleKey ==
    <<"t","i","t","l","e",":">>

StoryKey ==
    <<"s","t","o","r","y",":">>

\* the loop body of parse_gemini_output over lines[i..]; mode is None or
\* "story"
RECURSIVE ParseLoop(_, _, _, _, _)
ParseLoop(lines, i, title, story, mode) ==
    IF i > Len(lines) THEN [title |-> title, story |-> story]
    ELSE LET ln == lines[i]
         IN  IF StartsWith(Lower(Strip(ln)), TitleKey)
             THEN ParseLoop(lines, i + 1, Strip(AfterFirstColon(ln)), story,
                            None)
             ELSE IF StartsWith(Lower(Strip(ln)), StoryKey)
                  THEN ParseLoop(lines, i + 1, title, story, "story")
                  ELSE IF mode = "story"
                       THEN ParseLoop(lines, i + 1, title,
                                      story \o ln \o <<"\n">>, mode)
                       ELSE ParseLoop(lines, i + 1, title, story, mode)

parse_gemini_output(text) ==
    LET r == ParseLoop(SplitLines(text), 1, <<>>, <<>>, None)
    IN  [title |-> r.title, story |-> Strip(r.story)]

----------------------------------------------------------------------------
(* Marker sanitizer *)

strip_markers(story) ==
    Strip(Replace(Replace(Replace(Replace(story, TWIST1, <<>>),
                                  TWIST2, <<>>), TWIST3, <<>>), TWIST4, <<>>))

----------------------------------------------------------------------------
(* Model client *)

RATE_LIMIT_EXCEEDED ==
    <<"R","A","T","E","_","L","I","M","I","T","_","E","X","C","E","E","D","E",
      "D">>

PERMISSION_DENIED ==
    <<"P","E","R","M","I","S","S","I","O","N","_","D","E","N","I","E","D">>

INVALID_ARGUMENT ==
    <<"I","N","V","A","L","I","D","_","A","R","G","U","M","E","N","T">>

QuotaMessage ==
    <<"A","P","I"," ","q","u","o","t","a"," ","e","x","c","e","e","d","e","d",
      "."," ","P","l","e","a","s","e"," ","c","h","e","c","k"," ","y","o","u",
      "r"," ","G","o","o","g","l","e"," ","A","I"," ","S","t","u","d","i","o",
      " ","q","u","o","t","a"," ","l","i","m","i","t","s"," ","o","r"," ","t",
      "r","y"," ","a","g","a","i","n"," ","l","a","t","e","r",".">>

PermissionMessage ==
    <<"A","P","I"," ","k","e","y"," ","d","o","e","s","n","'","t"," ","h","a",
      "v","e"," ","p","e","r","m","i","s","s","i","o","n","."," ","P","l","e",
      "a","s","e"," ","c","h","e","c","k"," ","y","o","u","r"," ","A","P","I",
      " ","k","e","y"," ","i","n"," ","G","o","o","g","l","e"," ","A","I"," ",
      "S","t","u","d","i","o",".">>

InvalidMessage ==
    <<"I","n","v","a","l","i","d"," ","A","P","I"," ","r","e","q","u","e","s",
      "t","."," ","P","l","e","a","s","e"," ","c","h","e","c","k"," ","y","o",
      "u","r"," ","A","P","I"," ","k","e","y"," ","c","o","n","f","i","g","u",
      "r","a","t","i","o","n",".">>

UpstreamPrefix ==
    <<"G","e","m","i","n","i"," ","A","P","I"," ","e","r","r","o","r",":"," ">>

EmptyResponseMessage ==
    <<"E","m","p","t","y"," ","r","e","s","p","o","n","s","e"," ","f","r","o",
      "m"," ","m","o","d","e","l">>

ExceptionName ==
    <<"E","x","c","e","p","t","i","o","n">>

\* the except branch with the "429" test forgotten
call_gemini_except_no_429(error_msg) ==
    IF Contains(error_msg, RATE_LIMIT_EXCEEDED)
    THEN QuotaMessage
    ELSE IF Contains(error_msg, PERMISSION_DENIED)
            \/ Contains(error_msg, <<"4","0","3">>)
         THEN PermissionMessage
         ELSE IF Contains(error_msg, INVALID_ARGUMENT)
                 \/ Contains(error_msg, <<"4","0","0">>)
              THEN InvalidMessage
              ELSE UpstreamPrefix \o error_msg

\* the except branch of call_gemini: the message of the Exception raised
\* for an underlying error whose str() is error_msg
call_gemini_except(error_msg) ==
    IF Contains(error_msg, RATE_LIMIT_EXCEEDED)
       \/ Contains(error_msg, <<"4","2","9">>)
    THEN QuotaMessage
    ELSE IF Contains(error_msg, PERMISSION_DENIED)
            \/ Contains(error_msg, <<"4","0","3">>)
         THEN PermissionMessage
         ELSE IF Contains(error_msg, INVALID_ARGUMENT)
                 \/ Contains(error_msg, <<"4","0","0">>)
              THEN InvalidMessage
              ELSE UpstreamPrefix \o error_msg

\* call_gemini returning resp.text untrimmed
call_gemini_untrimmed(result) ==
    IF result.kind = "error"
    THEN [raised |-> TRUE,
          type_name |-> ExceptionName,
          message |-> call_gemini_except(result.error_msg)]
    ELSE [raised |-> FALSE,
          value |-> IF result.kind = "no_text" THEN <<>> ELSE result.text]

\* call_gemini on what model.generate_content did: it returned a response
\* whose text is the str result.text (kind "text") or is None (kind
\* "no_text"), or it raised an error whose str() is result.error_msg (kind
\* "error")
call_gemini(result) ==
    IF result.kind = "error"
    THEN [raised |-> TRUE,
          type_name |-> ExceptionName,
          message |-> call_gemini_except(result.error_msg)]
    ELSE [raised |-> FALSE,
          value |-> Strip(IF result.kind = "no_text" THEN <<>>
                          ELSE result.text)]

----------------------------------------------------------------------------
(* Request handlers *)

\* JSONResponse({"error": error}, status_code=500)
ErrorResponse(error) == [status |-> 500, body |-> [error |-> error]]

\* f"{e}": the type name left out
FormatMessageOnly(type_name, message) == message

\* f"{type(e).__name__}: {e}"
FormatException(type_name, message) == type_name \o <<":", " ">> \o message

\* generate without its test for an empty out
generate_no_empty_test(result) ==
    LET out == call_gemini(result)
    IN  IF out.raised
        THEN ErrorResponse(FormatException(out.type_name, out.message))
        ELSE LET parsed == parse_gemini_output(out.value)
                 story_raw == IF parsed.story = <<>> THEN out.value
                              ELSE parsed.story
             IN  [status |-> 200,
                  body |-> [title |-> parsed.title,
                            story_raw |-> story_raw,
                            story_clean |-> strip_markers(story_raw)]]

\* the body of generate, from its call of call_gemini on
generate(result) ==
    LET out == call_gemini(result)
    IN  IF out.raised
        THEN ErrorResponse(FormatException(out.type_name, out.message))
        ELSE IF out.value = <<>>
             THEN ErrorResponse(EmptyResponseMessage)
             ELSE LET parsed == parse_gemini_output(out.value)
                      story_raw == IF parsed.story = <<>> THEN out.value
                                   ELSE parsed.story
                  IN  [status |-> 200,
                       body |-> [title |-> parsed.title,
                                 story_raw |-> story_raw,
                                 story_clean |-> strip_markers(story_raw)]]

\* revise without its fallback to the whole output
revise_no_fallback(result) ==
    LET out == call_gemini(result)
    IN  IF out.raised
        THEN ErrorResponse(FormatException(out.type_name, out.message))
        ELSE IF out.value = <<>>
             THEN ErrorResponse(EmptyResponseMessage)
             ELSE LET parsed == parse_gemini_output(out.value)
                  IN  [status |-> 200,
                       body |-> [title |-> parsed.title,
                                 story_raw |-> parsed.story,
                                 story_clean |-> strip_markers(parsed.story)]]

\* the body of revise, from its call of call_gemini on
revise(result) ==
    LET out == call_gemini(result)
    IN  IF out.raised
        THEN ErrorResponse(FormatException(out.type_name, out.message))
        ELSE IF out.value = <<>>
             THEN ErrorResponse(EmptyResponseMessage)
             ELSE LET parsed == parse_gemini_output(out.value)
                      story_raw == IF parsed.story = <<>> THEN out.value
                                   ELSE parsed.story
                  IN  [status |-> 200,
                       body |-> [title |-> parsed.title,
                                 story_raw |-> story_raw,
                                 story_clean |-> strip_markers(story_raw)]]

----------------------------------------------------------------------------
(* Bounded input domains *)

RECURSIVE Concat(_)
Concat(parts) ==
    IF parts = <<>> THEN <<>> ELSE Head(parts) \o Concat(Tail(parts))

\* every concatenation of at most n fragments of F
Texts(F, n) == {Concat(ps) : ps \in UNION {[1..k -> F] : k \in 0..n}}

StripFragments ==
    { <<"[","T","W","I","S","T">>, <<"1","]">>, <<"2","]">>, <<"4","]">>,
      TWIST1, TWIST3, <<" ">>, <<"a">>, <<"\n">> }

StripInputs == Texts(StripFragments, MaxStripFrags)

\* single-line titles X
Titles ==
    { <<>>, <<"A">>, <<" ","A","b"," ">>, <<"A",":"," ","b">> }

BodyFragments ==
    { <<"a">>, <<" ">>, <<"\n">>, <<"\r">>, TWIST1,
      <<"T","i","t","l","e",":"," ","z">>, <<"s","t","o","r","y",":">> }

Bodies == Texts(BodyFragments, MaxBodyFrags)

\* the text 'Title: X', an empty line, 'Story:', then Y
WellFormed(X, Y) ==
    <<"T","i","t","l","e",":"," ">> \o X \o <<"\n","\n">>
        \o <<"S","t","o","r","y",":","\n">> \o Y

ErrFragments ==
    { <<"4","2","9">>, <<"4","0","3">>, <<"4","0","0">>, <<"4">>,
      <<"2","9">>, RATE_LIMIT_EXCEEDED, PERMISSION_DENIED, INVALID_ARGUMENT,
      <<"x">>, <<" ">> }

\* str(e) of the errors model.generate_content raises
ErrorMessages == Texts(ErrFragments, MaxErrFrags)

OutFragments ==
    { <<"T","i","t","l","e",":"," ","A">>, <<"S","t","o","r","y",":">>,
      <<" ","s","t","o","r","y",":"," ","b">>, <<"\n">>, <<" ">>, <<"a">>,
      TWIST1, <<"\r">> }

\* resp.text of the responses model.generate_content returns
ResponseTexts == Texts(OutFragments, MaxOutFrags)

ModelResults ==
    [kind : {"text"}, text : ResponseTexts]
        \cup {[kind |-> "no_text"]}
        \cup [kind : {"error"}, error_msg : ErrorMessages]

\* a few results of each kind, for the runs with two requests
FewModelResults ==
    [kind : {"text"},
     text : { <<" ","\n">>, <<"a">>, TWIST1,
              WellFormed(<<"A">>, TWIST1 \o <<" ","a">>) }]
        \cup {[kind |-> "no_text"]}
        \cup [kind : {"error"},
              error_msg : { <<"4","2","9">>, <<"4","0","3">>, <<"x">> }]

----------------------------------------------------------------------------
(* The server is idle in every function harness *)

Requests == {"r1", "r2"}

\* model.generate_content has not answered yet
NoResult == [kind |-> "pending"]

\* no response has been returned yet
NoResponse == [status |-> 0]

ServerIdle ==
    /\ pc = [r \in Requests |-> "idle"]
    /\ endpoint = [r \in Requests |-> "none"]
    /\ loop = None
    /\ calls = [r \in Requests |-> 0]
    /\ model_result = [r \in Requests |-> NoResult]
    /\ response = [r \in Requests |-> NoResponse]

serverVars == <<pc, endpoint, loop, calls, model_result, response>>

harnessVars == <<op, input, output>>

HarnessIdle ==
    /\ op = "none"
    /\ input = <<>>
    /\ output = <<>>

----------------------------------------------------------------------------
(* The server: one event loop runs the coroutines of the async handlers.   *)
(* A coroutine gives the loop up only at an await or when it returns; the  *)
(* handlers hold no await, and call_gemini calls model.generate_content    *)
(* synchronously.                                                          *)

Endpoints == {"generate", "revise"}

\* a client posts to /generate or /revise; the request waits for the loop
Receive(r, ep) ==
    /\ pc[r] = "idle"
    /\ pc' = [pc EXCEPT ![r] = "pending"]
    /\ endpoint' = [endpoint EXCEPT ![r] = ep]
    /\ UNCHANGED <<loop, calls, model_result, response, harnessVars>>

\* the loop starts the coroutine of a waiting request: generate builds its
\* prompt
generate_begin(r) ==
    /\ pc[r] = "pending"
    /\ endpoint[r] = "generate"
    /\ loop = None
    /\ loop' = r
    /\ pc' = [pc EXCEPT ![r] = "handler"]
    /\ UNCHANGED <<endpoint, calls, model_result, response, harnessVars>>

revise_begin(r) ==
    /\ pc[r] = "pending"
    /\ endpoint[r] = "revise"
    /\ loop = None
    /\ loop' = r
    /\ pc' = [pc EXCEPT ![r] = "handler"]
    /\ UNCHANGED <<endpoint, calls, model_result, response, harnessVars>>

\* call_gemini calls model.generate_content(prompt): a plain call, the
\* coroutine keeps the loop while the model service works
call_gemini_issue(r) ==
    /\ pc[r] = "handler"
    /\ loop = r
    /\ calls' = [calls EXCEPT ![r] = @ + 1]
    /\ pc' = [pc EXCEPT ![r] = "in_call"]
    /\ UNCHANGED <<endpoint, loop, model_result, response, harnessVars>>

\* a call_gemini that tries again when model.generate_content raises
AfterAttemptRetry(result) ==
    IF result.kind = "error" THEN "handler" ELSE "returned"

\* where the request stands once model.generate_content has returned or
\* raised: call_gemini hands the text or the exception to the handler
AfterAttempt(result) == "returned"

\* model.generate_content returns a response or raises
ModelReplies(r, result) ==
    /\ pc[r] = "in_call"
    /\ model_result' = [model_result EXCEPT ![r] = result]
    /\ pc' = [pc EXCEPT ![r] = AfterAttempt(result)]
    /\ UNCHANGED <<endpoint, loop, calls, response, harnessVars>>

\* the rest of generate: the response is returned and the coroutine ends
generate_end(r) ==
    /\ pc[r] = "returned"
    /\ endpoint[r] = "generate"
    /\ response' = [response EXCEPT ![r] = generate(model_result[r])]
    /\ pc' = [pc EXCEPT ![r] = "done"]
    /\ loop' = None
    /\ UNCHANGED <<endpoint, calls, model_result, harnessVars>>

revise_end(r) ==
    /\ pc[r] = "returned"
    /\ endpoint[r] = "revise"
    /\ response' = [response EXCEPT ![r] = revise(model_result[r])]
    /\ pc' = [pc EXCEPT ![r] = "done"]
    /\ loop' = None
    /\ UNCHANGED <<endpoint, calls, model_result, harnessVars>>

Init == ServerIdle /\ HarnessIdle

Next ==
    \E r \in Requests :
        \/ \E ep \in Endpoints : Receive(r, ep)
        \/ generate_begin(r)
        \/ revise_begin(r)
        \/ call_gemini_issue(r)
        \/ \E result \in FewModelResults : ModelReplies(r, result)
        \/ generate_end(r)
        \/ revise_end(r)

\* two concurrent requests, a few model results each
Spec == Init /\ [][Next]_vars

NextHandler ==
    \/ \E ep \in Endpoints : Receive("r1", ep)
    \/ generate_begin("r1")
    \/ revise_begin("r1")
    \/ call_gemini_issue("r1")
    \/ \E result \in ModelResults : ModelReplies("r1", result)
    \/ generate_end("r1")
    \/ revise_end("r1")

\* one request, every model result of the bounded domains
SpecHandler == Init /\ [][NextHandler]_vars

----------------------------------------------------------------------------
(* Harness of strip_markers: story_clean = strip_markers(story_raw), and a *)
(* second application to the result                                        *)

InitStrip ==
    /\ ServerIdle
    /\ op = "none"
    /\ input \in StripInputs
    /\ output = <<>>

ApplyStrip ==
    /\ op = "none"
    /\ output' = strip_markers(input)
    /\ op' = "strip_markers"
    /\ UNCHANGED <<input, serverVars>>

ApplyStripAgain ==
    /\ op = "strip_markers"
    /\ input' = output
    /\ output' = strip_markers(output)
    /\ op' = "strip_markers_twice"
    /\ UNCHANGED serverVars

NextStrip == ApplyStrip \/ ApplyStripAgain

SpecStrip == InitStrip /\ [][NextStrip]_vars

AnyMarker(s) ==
    \/ Contains(s, TWIST1)
    \/ Contains(s, TWIST2)
    \/ Contains(s, TWIST3)
    \/ Contains(s, TWIST4)

\* C1: for every input s, strip_markers(s) contains none of [TWIST1],
\* [TWIST2], [TWIST3], [TWIST4] as a substring.
C1_CleanHasNoMarker ==
    op = "strip_markers" => ~AnyMarker(output)

\* C5: strip_markers is idempotent: after a second application (input holds
\* strip_markers(s), output holds strip_markers(strip_markers(s))) the two
\* are equal.
C5_StripIdempotent ==
    op = "strip_markers_twice" => output = input

----------------------------------------------------------------------------
(* Harness of parse_gemini_output on well-formed model output *)

InitParse ==
    /\ ServerIdle
    /\ op = "none"
    /\ input \in [X : Titles, Y : Bodies]
    /\ output = <<>>

ApplyParse ==
    /\ op = "none"
    /\ output' = parse_gemini_output(WellFormed(input.X, input.Y))
    /\ op' = "parse_gemini_output"
    /\ UNCHANGED <<input, serverVars>>

NextParse == ApplyParse

SpecParse == InitParse /\ [][NextParse]_vars

\* a line of Y is taken for a 'Title:' or 'Story:' line by the parser
KeyLine(ln) ==
    \/ StartsWith(Lower(Strip(ln)), TitleKey)
    \/ StartsWith(Lower(Strip(ln)), StoryKey)

\* Y's line boundaries are all "\n" and no line of Y is a key line
PlainBody(Y) ==
    /\ \A i \in 1..Len(Y) : Y[i] \in LineBreaks => Y[i] = "\n"
    /\ \A i \in 1..Len(SplitLines(Y)) : ~KeyLine(SplitLines(Y)[i])

\* C3 as stated: for every single-line title X and every body Y, parsing
\* 'Title: X', an empty line, 'Story:', Y yields title = X trimmed and
\* story_raw = Y trimmed.
C3_ParseAnyBody ==
    op = "parse_gemini_output" =>
        /\ output.title = Strip(input.X)
        /\ output.story = Strip(input.Y)

\* C3 amended: the same, for every body Y whose line boundaries are all
\* "\n" and none of whose lines, trimmed and lower-cased, starts with
\* 'title:' or 'story:'.
C3_ParsePlainBody ==
    (op = "parse_gemini_output" /\ PlainBody(input.Y)) =>
        /\ output.title = Strip(input.X)
        /\ output.story = Strip(input.Y)

\* C3 witness: a parsed body of two lines, one holding a marker, with a
\* title that itself holds a colon
C3_Witness ==
    /\ op = "parse_gemini_output"
    /\ PlainBody(input.Y)
    /\ input.Y = <<"a","\n">> \o TWIST1
    /\ input.X = <<"A",":"," ","b">>
    /\ output.story = input.Y
    /\ output.title = input.X

----------------------------------------------------------------------------
(* Harness of call_gemini on a failing model call *)

InitCallGemini ==
    /\ ServerIdle
    /\ op = "none"
    /\ input \in ErrorMessages
    /\ output = <<>>

ApplyCallGemini ==
    /\ op = "none"
    /\ output' = call_gemini([kind |-> "error", error_msg |-> input])
    /\ op' = "call_gemini"
    /\ UNCHANGED <<input, serverVars>>

NextCallGemini == ApplyCallGemini

SpecCallGemini == InitCallGemini /\ [][NextCallGemini]_vars

\* the signals call_gemini recognises in str(e)
RateSignal(m) ==
    Contains(m, RATE_LIMIT_EXCEEDED) \/ Contains(m, <<"4","2","9">>)

PermissionSignal(m) ==
    Contains(m, PERMISSION_DENIED) \/ Contains(m, <<"4","0","3">>)

InvalidSignal(m) ==
    Contains(m, INVALID_ARGUMENT) \/ Contains(m, <<"4","0","0">>)

\* the kinds the raised exception e is of, for the underlying message m
KindsOf(e, m) ==
    {k \in {"RateLimited", "PermissionDenied", "InvalidRequest",
            "UpstreamError"} :
        \/ k = "RateLimited" /\ e.message = QuotaMessage
        \/ k = "PermissionDenied" /\ e.message = PermissionMessage
        \/ k = "InvalidRequest" /\ e.message = InvalidMessage
        \/ k = "UpstreamError" /\ e.message = UpstreamPrefix \o m}

\* C8: call_gemini maps every failure to exactly one of four kinds:
\* rate-limited when str(e) carries a quota/429 signal, else
\* permission-denied when it carries a 403/permission signal, else
\* invalid-request when it carries a 400/invalid-argument signal, else
\* upstream-error; the original message is carried in the raised error
\* exactly in the upstream-error case, and a failure carrying none of the
\* three signals is never of one of the first three kinds.
C8_FailureKinds ==
    op = "call_gemini" =>
        LET m == input
            kinds == KindsOf(output, m)
        IN  /\ output.raised
            /\ Cardinality(kinds) = 1
            /\ RateSignal(m) => kinds = {"RateLimited"}
            /\ (~RateSignal(m) /\ PermissionSignal(m))
                   => kinds = {"PermissionDenied"}
            /\ (~RateSignal(m) /\ ~PermissionSignal(m) /\ InvalidSignal(m))
                   => kinds = {"InvalidRequest"}
            /\ (~RateSignal(m) /\ ~PermissionSignal(m) /\ ~InvalidSignal(m))
                   <=> kinds = {"UpstreamError"}
            /\ (m # <<>> /\ Contains(output.message, m))
                   => kinds = {"UpstreamError"}
            /\ kinds = {"UpstreamError"} => Contains(output.message, m)

\* C8 witness: a message carrying both a 403 and a 429 signal has been
\* classified, as rate-limited
C8_Witness ==
    /\ op = "call_gemini"
    /\ input = <<"4","0","3","4","2","9">>
    /\ output.message = QuotaMessage

----------------------------------------------------------------------------
(* Claims about the handlers *)

Blank(result) ==
    \/ result.kind = "no_text"
    \/ result.kind = "text" /\ Strip(result.text) = <<>>

\* C2: while the model call of one request is outstanding, the server can
\* start an unrelated request that is waiting.
C2_ModelCallIsSuspensionPoint ==
    \A a \in Requests : \A b \in Requests :
        (a # b /\ pc[a] = "in_call" /\ pc[b] = "pending")
            => ENABLED (generate_begin(b) \/ revise_begin(b))

\* C4: whenever the model call fails, returns blank text, or an exception
\* reaches the handler's except clause, the response has status 500 and a
\* payload whose only key is error.
C4_FailureIsError500 ==
    \A r \in Requests :
        (pc[r] = "done"
         /\ (model_result[r].kind = "error" \/ Blank(model_result[r])))
            => /\ response[r].status = 500
               /\ DOMAIN response[r].body = {"error"}

\* C4 witness: a whitespace-only model text has been answered with 500
C4_Witness ==
    /\ pc["r1"] = "done"
    /\ model_result["r1"] = [kind |-> "text", text |-> <<" ","\n"," ">>]
    /\ response["r1"].status = 500

IsLetter(c) == \E i \in 1..26 : UpperCase[i] = c \/ LowerCase[i] = c

\* where the kind label of '<ErrorKind>: <message>' ends: letters, then
\* a colon and a space
LabelEnds(error) ==
    {k \in 2..(Len(error) - 1) :
        /\ error[k] = ":"
        /\ error[k + 1] = " "
        /\ \A j \in 1..(k - 1) : IsLetter(error[j])}

\* no line of text, trimmed and lower-cased, starts with 'story:'
NoStoryLine(text) ==
    \A i \in 1..Len(SplitLines(text)) :
        ~StartsWith(Lower(Strip(SplitLines(text)[i])), StoryKey)

\* C6: a non-blank model output with no 'story:' line parses to an empty
\* story_raw, and the handler (/generate and /revise alike) returns 200
\* with story_raw equal to the whole trimmed model output.
C6_FallbackToWholeOutput ==
    \A r \in Requests :
        (pc[r] = "done" /\ model_result[r].kind = "text"
         /\ ~Blank(model_result[r]) /\ NoStoryLine(model_result[r].text))
            => /\ parse_gemini_output(Strip(model_result[r].text)).story
                      = <<>>
               /\ response[r].status = 200
               /\ response[r].body.story_raw = Strip(model_result[r].text)

\* C6 witness: /revise has answered an output holding a 'Title:' line and
\* no 'Story:' line
C6_Witness ==
    /\ pc["r1"] = "done"
    /\ endpoint["r1"] = "revise"
    /\ model_result["r1"].kind = "text"
    /\ model_result["r1"].text
           = <<"T","i","t","l","e",":"," ","A","\n","a">>
    /\ response["r1"].status = 200
    /\ response["r1"].body.title = <<"A">>
    /\ response["r1"].body.story_raw = model_result["r1"].text

\* C7 as stated: every error payload has an error string of the form
\* '<ErrorKind>: <message>'.
C7_EveryErrorHasKindLabel ==
    \A r \in Requests :
        (pc[r] = "done" /\ response[r].status = 500)
            => LabelEnds(response[r].body.error) # {}

\* C7 amended: the error string of a failed model call is the exception's
\* type name, a colon, a space and the message call_gemini raised; the
\* error string for blank model text is 'Empty response from model', with
\* no kind label.
C7_ErrorStringForms ==
    \A r \in Requests :
        (pc[r] = "done" /\ response[r].status = 500)
            => LET error == response[r].body.error
               IN  IF model_result[r].kind = "error"
                   THEN /\ LabelEnds(error) # {}
                        /\ \E k \in LabelEnds(error) :
                               SubSeq(error, k + 2, Len(error))
                                   = call_gemini_except(
                                         model_result[r].error_msg)
                   ELSE /\ error = EmptyResponseMessage
                        /\ LabelEnds(error) = {}

\* C7 witness: the error response to a failure with no recognised signal
C7_Witness ==
    /\ pc["r1"] = "done"
    /\ model_result["r1"] = [kind |-> "error", error_msg |-> <<"x">>]
    /\ response["r1"].body.error
           = ExceptionName \o <<":"," ">> \o UpstreamPrefix \o <<"x">>

\* a request has issued no model call before its handler calls call_gemini
\* and exactly one from then on
C9_CallCount ==
    \A r \in Requests :
        calls[r] = IF pc[r] \in {"idle", "pending", "handler"} THEN 0 ELSE 1

\* the step that follows a failed model call returns the error response
\* and issues no call
C9_AfterFailure ==
    \A r \in Requests :
        (pc[r] = "returned" /\ model_result[r].kind = "error"
         /\ pc'[r] # pc[r])
            => /\ pc'[r] = "done"
               /\ response'[r].status = 500
               /\ calls'[r] = calls[r]

\* C9: exactly one model call is issued per request, and a failed attempt
\* is followed directly by the error response, with no second call.
C9_SingleAttempt == []C9_CallCount /\ [][C9_AfterFailure]_vars

\* C9 witness: a request whose model call failed has been answered
C9_Witness ==
    /\ pc["r2"] = "done"
    /\ model_result["r2"].kind = "error"
    /\ response["r2"].status = 500
    /\ calls["r2"] = 1

\* C10: in every 200 response story_raw is non-empty and has no leading or
\* trailing whitespace, and story_clean is strip_markers of that story_raw.
C10_StoryRawTrimmedNonEmpty ==
    \A r \in Requests :
        (pc[r] = "done" /\ response[r].status = 200)
            => LET body == response[r].body
               IN  /\ body.story_raw # <<>>
                   /\ body.story_raw[1] \notin Whitespace
                   /\ body.story_raw[Len(body.story_raw)] \notin Whitespace
                   /\ body.story_clean = strip_markers(body.story_raw)

\* C10 witness: a story_raw that is one marker, whose story_clean is empty
C10_Witness ==
    /\ pc["r1"] = "done"
    /\ response["r1"].status = 200
    /\ response["r1"].body.story_raw = TWIST1
    /\ response["r1"].body.story_clean = <<>>

====
